---- MODULE Spec2Model ----
(***************************************************************************)
(* A model of the OggVorbis decoder of xlab/vorbis-go (decoder/decoder.go) *)
(* and of the way cmd/vorbis-player drives it.                             *)
(*                                                                         *)
(* The Decoder is shared by two caller threads (in the player: the decode  *)
(* goroutine that runs Decode and then Close, and the shutdown hook that   *)
(* runs Close) and by one consumer that receives from SamplesOut().        *)
(* libogg/libvorbis and the io.Reader are the environment: every value     *)
(* they return is chosen from the values their API can return.             *)
(*                                                                         *)
(* A unit is a run of bytes of the physical bitstream that the sync layer  *)
(* turns into one page or skips as garbage; DATA_CHUNK_SIZE is counted in  *)
(* units.  A sample is identified by its position in the decoded stream.   *)
(***************************************************************************)
EXTENDS Integers, Sequences, FiniteSets, TLC

\* ---------------------------------------------------------------- bounds
MaxSpc == 2          \* samplesPerChannel ranges over 1..MaxSpc
MaxUnits == 1        \* units the byte source can still deliver after New
MaxPkts == 1         \* packets completed by one page
MaxBurst == 3        \* samples one decoded block adds
MaxSamples == 4      \* samples decoded over the whole session
MaxCalls == 2        \* Decode/Close calls made by the decoding thread
MaxStream == 4       \* units the byte source holds when New is called
MaxHdrPkts == 2      \* packets one page of the header section completes
\* The two sizes of decoder.go:15 and decoder.go:17, scaled down: frames the
\* output channel buffers (8 in the source), and units read from the byte
\* source by one readChunk (4096 bytes in the source).
OUT_BUFFER_SIZE == 2
DATA_CHUNK_SIZE == 2

Callers == {"t1", "t2"}
\* the thread that runs Decode (main.go:85-88); the other one is the shutdown
\* hook, which runs Close once (main.go:77)
DecodeCallers == {"t1"}
CallLimit(t) == IF t \in DecodeCallers THEN MaxCalls ELSE 1
None == "none"

VARIABLES
    \* Decoder fields
    samplesPerChannel, \* d.samplesPerChannel
    pcmOut,            \* d.pcmOut: the frames buffered in the channel
    pcmClosed,         \* d.pcmOut has been closed
    stopClosed,        \* d.stopChan has been closed (the stop signal)
    closed,            \* d.closed
    onError,           \* d.onError: "nil" or "fn"
    mutex,             \* d.Mutex: the thread holding it, or None
    \* codec engine and byte source
    srcLeft,           \* units the byte source has not delivered yet
    syncBuf,           \* units buffered in d.syncState
    pkts,              \* packets waiting in d.streamState
    gap,               \* d.streamState will report a hole before the next packet
    pageEos,           \* OggPageEos(&d.page) = 1
    dspInit,           \* d.dspState and d.block are initialised
    produced,          \* samples decoded into d.dspState so far
    consumed,          \* samples taken out of d.dspState by SynthesisRead
    cleanups,          \* runs of decoderStateCleanup
    \* threads
    pc,                \* position of each caller thread
    calls,             \* calls each caller thread has made
    result,            \* what the last Decode call of each thread returned
    late,              \* the running call began after a Close had returned
    \* locals of the running Decode (it holds the mutex, so there is one)
    frame,             \* frame
    samples,           \* samples, between append and SynthesisRead
    retErr,            \* the error Decode is returning
    run,               \* number of the Decode run that got past the closed check
    \* consumer
    received,          \* frames received from SamplesOut(), in order
    consumerDone,      \* the consumer has seen the channel closed
    \* history
    sent,              \* frames put on d.pcmOut: [run, data], in order
    dropped,           \* frames sendFrame gave up because of the stop signal
    hookCalls,         \* invocations of the error handler
    stopSets,          \* executions of close(d.stopChan)
    closeReturned,     \* some Close call has returned
    eosDrained,        \* this run took the last packet of an end-of-stream page
    panicked,          \* the panic that ended the process, or None
    \* New (readStreamHeaders)
    stream,            \* the units the byte source held when New was called
    input,             \* the units the byte source has not delivered yet
    syncData,          \* the units buffered in d.syncState
    hq,                \* the packets waiting in d.streamState during New
    npc,               \* position of New
    headersRead,       \* headersRead
    accepted,          \* header packets SynthesisHeaderin has accepted
    newResult,         \* what New returned: "ok" (a Decoder) or the error
    ioFailed,          \* a read of the byte source failed with an error other than EOF
    \* Decode, continued
    script,            \* the bursts the next decode steps must yield; <<>>: any
    pageinRet          \* what OggStreamPagein returned for the page in d.page

decoderVars == <<samplesPerChannel, pcmOut, pcmClosed, stopClosed, closed, onError, mutex>>
engineVars == <<srcLeft, syncBuf, pkts, gap, pageEos, dspInit, produced, consumed, cleanups>>
threadVars == <<pc, calls, result, late>>
localVars == <<frame, samples, retErr, run>>
consumerVars == <<received, consumerDone>>
historyVars == <<sent, dropped, hookCalls, stopSets, closeReturned, eosDrained, panicked>>
headerVars ==
    <<stream, input, syncData, hq, npc, headersRead, accepted, newResult, ioFailed>>
vars == <<decoderVars, engineVars, threadVars, localVars, consumerVars, historyVars,
          headerVars, script, pageinRet>>

\* ---------------------------------------------------------------- helpers
Min(a, b) == IF a < b THEN a ELSE b

\* the samples first .. first+n-1 of the decoded stream
Ids(first, n) == [i \in 1..n |-> first + i - 1]

RECURSIVE Concat(_)
Concat(fs) == IF fs = <<>> THEN <<>> ELSE Head(fs) \o Concat(Tail(fs))

Data(log) == [i \in 1..Len(log) |-> log[i].data]

Running == panicked = None

\* ------------------------------------------------- environment: io.Reader
\* io.ReadFull(r, buf[:DATA_CHUNK_SIZE]) over a source holding srcLeft more
\* units: <<n, err>>.  A full chunk comes with no error, the end of the source
\* with io.EOF (nothing read) or io.ErrUnexpectedEOF (a short read), and the
\* reader may fail with an error of its own after any shorter read.
ReadFullResults ==
    (IF srcLeft >= DATA_CHUNK_SIZE THEN {<<DATA_CHUNK_SIZE, "nil">>}
     ELSE IF srcLeft > 0 THEN {<<srcLeft, "ErrUnexpectedEOF">>}
     ELSE {<<0, "EOF">>})
    \cup {<<n, "ErrIO">> : n \in 0..Min(srcLeft, DATA_CHUNK_SIZE - 1)}

\* ------------------------------------------- environment: libogg, libvorbis
\* ogg_sync_pageout: 1 a page, 0 more data needed, -1 bytes were skipped
PageoutResults == {0} \cup (IF syncBuf > 0 THEN {-1, 1} ELSE {})

\* what a synced page carries: the packets it completes, its end-of-stream
\* marker, whether ogg_stream_pagein takes it, whether it leaves a hole
Pages == [np : 0..MaxPkts, eos : BOOLEAN, ok : BOOLEAN, hole : BOOLEAN]

\* vorbis_synthesis: 0, or an error for a packet that is not audio
SynthesisResults == IF script = <<>> THEN {0, -1} ELSE {0}

\* vorbis_synthesis followed by vorbis_synthesis_blockin: the samples added
Bursts ==
    IF script = <<>>
    THEN {0} \cup {k \in 1..MaxBurst : produced + k <= MaxSamples}
    ELSE {Head(script)}

\* ------------------------------------------------------------ Decoder code
stopRequested == stopClosed

\* a reportError that never runs the handler
reportErrorNever(n) == n

\* reportError: the handler runs when one is set; hookCalls afterwards
reportError(n) == IF onError # "nil" THEN n + 1 ELSE n

\* readChunk's translation of the error of io.ReadFull
readChunkErr(err) == IF err = "ErrUnexpectedEOF" THEN "EOF" ELSE err

\* Decode's switch on the result of readNextPage
AfterPage(n, err) ==
    IF err = "nil" THEN "continue"
    ELSE IF err = "EOF" THEN (IF n > 0 THEN "continue" ELSE "return")
    ELSE "fatal"

\* a readNextPage that returns an error of its own after a desync
DesyncReturnFatal == <<0, "ErrDesync">>

\* readNextPage after a desync: return 0, nil
DesyncReturn == <<0, "nil">>

\* a readNextPage that takes the whole frame length for the room left
SpaceWhole(f) == samplesPerChannel

\* readNextPage: the room left in the frame, and the burst cut down to it
Space(f) == samplesPerChannel - Len(f)

\* a readNextPage that appends the whole burst, whatever room is left
TruncatedNot(n, f) == n

Truncated(n, f) == IF n > Space(f) THEN Space(f) ELSE n

FrameFull(f) == Len(f) = samplesPerChannel

\* a SynthesisRead that is given the burst as SynthesisPcmout returned it
ReadCountWhole(appended, burst) == burst

\* the count handed to vorbis_synthesis_read after appending `appended`
\* samples of a burst of `burst`
ReadCount(appended, burst) == appended

\* Decode's deferred flush sends the frame when this holds
FlushNeeded(f) == Len(f) > 0

\* readNextPage after the packet loop: the result is io.EOF when this holds
PageEnds == stopRequested \/ pageEos

\* a sendFrame that only sends: d.pcmOut <- frame without the select
SelectSendOnly ==
    IF pcmClosed \/ Len(pcmOut) < OUT_BUFFER_SIZE THEN {"send"} ELSE {}

\* sendFrame's select: the cases that can proceed.  A send on a closed channel
\* proceeds, and panics.
SelectReady ==
    (IF stopClosed THEN {"stop"} ELSE {})
    \cup (IF pcmClosed \/ Len(pcmOut) < OUT_BUFFER_SIZE THEN {"send"} ELSE {})

\* a Decoder whose methods do not wait for the mutex
CanLockAlways == TRUE

\* Close and Decode take the mutex when it is free
CanLock == mutex = None

\* a Decode without the closed check
DecodeRefusedNever == FALSE

\* Decode refuses to run on this
DecodeRefused == closed

\* a Close without the closed check
CloseDoneNever == FALSE

\* Close returns early on this
CloseDone == closed

\* a Close that leaves d.pcmOut open
ClosedPcmOutNot == pcmClosed

\* close(d.pcmOut): whether the channel is closed afterwards
ClosedPcmOut == TRUE

\* the effect of sendFrame(f) when the select takes case c
SendEffect(c, f) ==
    IF c = "stop"
    THEN /\ dropped' = dropped + 1
         /\ UNCHANGED <<pcmOut, sent, panicked>>
    ELSE IF pcmClosed
    THEN /\ panicked' = "send on closed channel"
         /\ UNCHANGED <<pcmOut, sent, dropped>>
    ELSE /\ pcmOut' = Append(pcmOut, f)
         /\ sent' = Append(sent, [run |-> run, data |-> f])
         /\ UNCHANGED <<dropped, panicked>>

\* ------------------------------------------------------------------- Init
Init ==
    /\ samplesPerChannel \in 1..MaxSpc
    /\ pcmOut = <<>>
    /\ pcmClosed = FALSE
    /\ stopClosed = FALSE
    /\ closed = FALSE
    /\ onError = "nil"
    /\ mutex = None
    /\ srcLeft \in 0..MaxUnits
    /\ syncBuf \in 0..(DATA_CHUNK_SIZE - 1)
    /\ pkts = 0
    /\ gap = FALSE
    /\ pageEos = FALSE
    /\ dspInit = FALSE
    /\ produced = 0
    /\ consumed = 0
    /\ cleanups = 0
    /\ pc = [t \in Callers |-> "idle"]
    /\ calls = [t \in Callers |-> 0]
    /\ result = [t \in Callers |-> None]
    /\ late = [t \in Callers |-> FALSE]
    /\ frame = <<>>
    /\ samples = 0
    /\ retErr = "nil"
    /\ run = 0
    /\ received = <<>>
    /\ consumerDone = FALSE
    /\ sent = <<>>
    /\ dropped = 0
    /\ hookCalls = 0
    /\ stopSets = 0
    /\ closeReturned = FALSE
    /\ eosDrained = FALSE
    /\ panicked = None
    /\ stream = <<>>
    /\ input = <<>>
    /\ syncData = <<>>
    /\ hq = <<>>
    /\ npc = "done"
    /\ headersRead = 2
    /\ accepted = 3
    /\ newResult = "ok"
    /\ ioFailed = FALSE
    /\ script = <<>>
    /\ pageinRet = 0

\* -------------------------------------------------------- SetErrorHandler
\* d.onError = fn, by the owner before it starts any call (main.go:82)
SetErrorHandler ==
    /\ Running
    /\ onError = "nil"
    /\ \A t \in Callers : calls[t] = 0
    /\ onError' = "fn"
    /\ UNCHANGED <<samplesPerChannel, pcmOut, pcmClosed, stopClosed, closed, mutex>>
    /\ UNCHANGED <<engineVars, threadVars, localVars, consumerVars, historyVars>>
    /\ UNCHANGED <<headerVars, script, pageinRet>>

\* ------------------------------------------------------------------ Decode
CallDecode(t) ==
    /\ Running
    /\ t \in DecodeCallers
    /\ pc[t] = "idle"
    /\ calls[t] < CallLimit(t)
    /\ pc' = [pc EXCEPT ![t] = "D_lock"]
    /\ calls' = [calls EXCEPT ![t] = @ + 1]
    /\ late' = [late EXCEPT ![t] = closeReturned]
    /\ result' = [result EXCEPT ![t] = None]
    /\ UNCHANGED <<decoderVars, engineVars, localVars, consumerVars, historyVars>>
    /\ UNCHANGED <<headerVars, script, pageinRet>>

\* Decode returns err.  Its deferred calls run: the flush, which is a step of
\* its own when a frame is in progress, then BlockClear, DspClear and Unlock.
Return(t, err) ==
    IF FlushNeeded(frame)
    THEN /\ retErr' = err
         /\ pc' = [pc EXCEPT ![t] = "D_flush"]
         /\ UNCHANGED <<mutex, result, dspInit, eosDrained>>
    ELSE /\ retErr' = "nil"
         /\ pc' = [pc EXCEPT ![t] = "idle"]
         /\ mutex' = None
         /\ result' = [result EXCEPT ![t] = err]
         /\ dspInit' = FALSE
         /\ eosDrained' = FALSE

\* d.Lock(), the closed check: return the error, the deferred Unlock runs
DecodeRefuse(t) ==
    /\ Running
    /\ pc[t] = "D_lock"
    /\ CanLock
    /\ DecodeRefused
    /\ result' = [result EXCEPT ![t] = "ErrClosed"]
    /\ pc' = [pc EXCEPT ![t] = "idle"]
    /\ UNCHANGED <<decoderVars, engineVars, calls, late, localVars, consumerVars, historyVars>>
    /\ UNCHANGED <<headerVars, script, pageinRet>>

\* d.Lock(); SynthesisInit fails: reportError, return the error, Unlock
DecodeInitFails(t) ==
    /\ Running
    /\ pc[t] = "D_lock"
    /\ CanLock
    /\ ~DecodeRefused
    /\ hookCalls' = reportError(hookCalls)
    /\ result' = [result EXCEPT ![t] = "ErrInit"]
    /\ pc' = [pc EXCEPT ![t] = "idle"]
    /\ UNCHANGED <<decoderVars, engineVars, calls, late, localVars, consumerVars>>
    /\ UNCHANGED <<sent, dropped, stopSets, closeReturned, eosDrained, panicked>>
    /\ UNCHANGED <<headerVars, script, pageinRet>>

\* d.Lock(); SynthesisInit, BlockInit, the empty frame
DecodeBegin(t) ==
    /\ Running
    /\ pc[t] = "D_lock"
    /\ CanLock
    /\ ~DecodeRefused
    /\ mutex' = t
    /\ dspInit' = TRUE
    /\ consumed' = produced
    /\ frame' = <<>>
    /\ samples' = 0
    /\ retErr' = "nil"
    /\ run' = run + 1
    /\ eosDrained' = FALSE
    /\ pc' = [pc EXCEPT ![t] = "D_loop"]
    /\ UNCHANGED <<samplesPerChannel, pcmOut, pcmClosed, stopClosed, closed, onError>>
    /\ UNCHANGED <<srcLeft, syncBuf, pkts, gap, pageEos, produced, cleanups>>
    /\ UNCHANGED <<calls, result, late, consumerVars>>
    /\ UNCHANGED <<sent, dropped, hookCalls, stopSets, closeReturned, panicked>>
    /\ UNCHANGED <<headerVars, script, pageinRet>>

\* for !d.stopRequested(): the stop signal is set, return nil
DecodeStopped(t) ==
    /\ Running
    /\ pc[t] = "D_loop"
    /\ stopRequested
    /\ Return(t, "nil")
    /\ UNCHANGED <<samplesPerChannel, pcmOut, pcmClosed, stopClosed, closed, onError>>
    /\ UNCHANGED <<srcLeft, syncBuf, pkts, gap, pageEos, produced, consumed, cleanups>>
    /\ UNCHANGED <<calls, late, frame, samples, run, consumerVars>>
    /\ UNCHANGED <<sent, dropped, hookCalls, stopSets, closeReturned, panicked>>
    /\ UNCHANGED <<headerVars, script, pageinRet>>

\* readNextPage: OggSyncPageout skipped bytes; d.onError is called as it is,
\* and 0, nil makes Decode continue
PageDesync(t) ==
    /\ Running
    /\ pc[t] = "D_loop"
    /\ ~stopRequested
    /\ -1 \in PageoutResults
    /\ syncBuf' = syncBuf - 1
    /\ IF onError = "nil"
       THEN /\ panicked' = "nil handler"
            /\ UNCHANGED <<hookCalls, pc, retErr, mutex, result, dspInit, eosDrained>>
       ELSE /\ UNCHANGED panicked
            /\ LET next == AfterPage(DesyncReturn[1], DesyncReturn[2])
               IN  /\ hookCalls' = IF next = "fatal" THEN reportError(hookCalls + 1)
                                                     ELSE hookCalls + 1
                   /\ IF next = "continue"
                      THEN UNCHANGED <<pc, retErr, mutex, result, dspInit, eosDrained>>
                      ELSE Return(t, IF next = "fatal" THEN DesyncReturn[2] ELSE "nil")
    /\ UNCHANGED <<samplesPerChannel, pcmOut, pcmClosed, stopClosed, closed, onError>>
    /\ UNCHANGED <<srcLeft, pkts, gap, pageEos, produced, consumed, cleanups>>
    /\ UNCHANGED <<calls, late, frame, samples, run, consumerVars>>
    /\ UNCHANGED <<sent, dropped, stopSets, closeReturned>>
    /\ UNCHANGED <<headerVars, script, pageinRet>>

\* readNextPage: OggSyncPageout needs more data
PageNeedsData(t) ==
    /\ Running
    /\ pc[t] = "D_loop"
    /\ ~stopRequested
    /\ 0 \in PageoutResults
    /\ pc' = [pc EXCEPT ![t] = "D_read"]
    /\ UNCHANGED <<decoderVars, engineVars, calls, result, late, localVars>>
    /\ UNCHANGED <<consumerVars, historyVars>>
    /\ UNCHANGED <<headerVars, script, pageinRet>>

\* readNextPage: a page is synced and handed to OggStreamPagein, whose result
\* is not looked at
PageIn(t) ==
    /\ Running
    /\ pc[t] = "D_loop"
    /\ ~stopRequested
    /\ 1 \in PageoutResults
    /\ \E p \in Pages :
        /\ p.hole => p.ok
        /\ syncBuf' = syncBuf - 1
        /\ pageEos' = p.eos
        /\ pkts' = IF p.ok THEN pkts + p.np ELSE pkts
        /\ gap' = IF p.ok THEN p.hole ELSE gap
        /\ pageinRet' = IF p.ok THEN 0 ELSE -1
    /\ pc' = [pc EXCEPT ![t] = "D_pktloop"]
    /\ UNCHANGED <<decoderVars, srcLeft, dspInit, produced, consumed, cleanups>>
    /\ UNCHANGED <<calls, result, late, localVars, consumerVars, historyVars>>
    /\ UNCHANGED <<headerVars, script>>

\* readChunk, and Decode's switch on what readNextPage returns from it
ReadChunk(t) ==
    /\ Running
    /\ pc[t] = "D_read"
    /\ \E r \in ReadFullResults :
        LET n == r[1]
            err == readChunkErr(r[2])
            next == AfterPage(n, err)
        IN  /\ syncBuf' = syncBuf + n
            /\ srcLeft' = srcLeft - n
            /\ ioFailed' = (ioFailed \/ r[2] = "ErrIO")
            /\ hookCalls' = IF next = "fatal" THEN reportError(hookCalls) ELSE hookCalls
            /\ IF next = "continue"
               THEN /\ pc' = [pc EXCEPT ![t] = "D_loop"]
                    /\ UNCHANGED <<retErr, mutex, result, dspInit, eosDrained>>
               ELSE Return(t, IF next = "fatal" THEN err ELSE "nil")
    /\ UNCHANGED <<samplesPerChannel, pcmOut, pcmClosed, stopClosed, closed, onError>>
    /\ UNCHANGED <<pkts, gap, pageEos, produced, consumed, cleanups>>
    /\ UNCHANGED <<calls, late, frame, samples, run, consumerVars>>
    /\ UNCHANGED <<sent, dropped, stopSets, closeReturned, panicked>>
    /\ UNCHANGED <<stream, input, syncData, hq, npc, headersRead, accepted, newResult>>
    /\ UNCHANGED <<script, pageinRet>>

\* readNextPage: the packet loop ends on the stop signal, and the check
\* behind the loop decides between io.EOF (Decode returns nil) and nil
PacketStopped(t) ==
    /\ Running
    /\ pc[t] = "D_pktloop"
    /\ stopRequested
    /\ IF PageEnds
       THEN Return(t, "nil")
       ELSE /\ pc' = [pc EXCEPT ![t] = "D_loop"]
            /\ UNCHANGED <<retErr, mutex, result, dspInit, eosDrained>>
    /\ UNCHANGED <<samplesPerChannel, pcmOut, pcmClosed, stopClosed, closed, onError>>
    /\ UNCHANGED <<srcLeft, syncBuf, pkts, gap, pageEos, produced, consumed, cleanups>>
    /\ UNCHANGED <<calls, late, frame, samples, run, consumerVars>>
    /\ UNCHANGED <<sent, dropped, hookCalls, stopSets, closeReturned, panicked>>
    /\ pageinRet' = 0
    /\ UNCHANGED <<headerVars, script>>

\* OggStreamPacketout reports a hole: continue
PacketHole(t) ==
    /\ Running
    /\ pc[t] = "D_pktloop"
    /\ ~stopRequested
    /\ gap
    /\ gap' = FALSE
    /\ UNCHANGED <<decoderVars, srcLeft, syncBuf, pkts, pageEos, dspInit, produced, consumed, cleanups>>
    /\ UNCHANGED <<threadVars, localVars, consumerVars, historyVars>>
    /\ pageinRet' = 0
    /\ UNCHANGED <<headerVars, script>>

\* OggStreamPacketout has no packet left on the page: return 0, nil
PacketNone(t) ==
    /\ Running
    /\ pc[t] = "D_pktloop"
    /\ ~stopRequested
    /\ ~gap
    /\ pkts = 0
    /\ eosDrained' = (eosDrained \/ pageEos)
    /\ pc' = [pc EXCEPT ![t] = "D_loop"]
    /\ UNCHANGED <<decoderVars, engineVars, calls, result, late, localVars, consumerVars>>
    /\ UNCHANGED <<sent, dropped, hookCalls, stopSets, closeReturned, panicked>>
    /\ pageinRet' = 0
    /\ UNCHANGED <<headerVars, script>>

\* a packet: Synthesis, SynthesisBlockin when it succeeded, and the first
\* SynthesisPcmout
PacketDecode(t) ==
    /\ Running
    /\ pc[t] = "D_pktloop"
    /\ ~stopRequested
    /\ ~gap
    /\ pkts > 0
    /\ pkts' = pkts - 1
    /\ \E synthesis \in SynthesisResults, k \in Bursts :
        produced' = IF synthesis = 0 THEN produced + k ELSE produced
    /\ script' = IF script = <<>> THEN script ELSE Tail(script)
    /\ pc' = [pc EXCEPT ![t] = IF produced' - consumed > 0 THEN "D_pcm" ELSE "D_pktloop"]
    /\ UNCHANGED <<decoderVars, srcLeft, syncBuf, gap, pageEos, dspInit, consumed, cleanups>>
    /\ UNCHANGED <<calls, result, late, localVars, consumerVars, historyVars>>
    /\ pageinRet' = 0
    /\ UNCHANGED headerVars

\* one turn of the loop over SynthesisPcmout: append the burst, cut down to the
\* room left; a frame that is not full yet goes on to SynthesisRead and the
\* next SynthesisPcmout, a full one to sendFrame
PcmAppend(t) ==
    /\ Running
    /\ pc[t] = "D_pcm"
    /\ LET burst == produced - consumed
           n == Truncated(burst, frame)
           f == frame \o Ids(consumed, n)
       IN  /\ frame' = f
           /\ IF FrameFull(f)
              THEN /\ samples' = ReadCount(n, burst)
                   /\ pc' = [pc EXCEPT ![t] = "D_send"]
                   /\ UNCHANGED consumed
              ELSE /\ consumed' = consumed + ReadCount(n, burst)
                   /\ pc' = [pc EXCEPT ![t] =
                                IF produced - consumed' > 0 THEN "D_pcm" ELSE "D_pktloop"]
                   /\ UNCHANGED samples
    /\ UNCHANGED <<decoderVars, srcLeft, syncBuf, pkts, gap, pageEos, dspInit, produced, cleanups>>
    /\ UNCHANGED <<calls, result, late, retErr, run, consumerVars, historyVars>>
    /\ UNCHANGED <<headerVars, script, pageinRet>>

\* d.sendFrame(*frame), the new frame, SynthesisRead, the next SynthesisPcmout
SendFull(t) ==
    /\ Running
    /\ pc[t] = "D_send"
    /\ \E c \in SelectReady : SendEffect(c, frame)
    /\ frame' = <<>>
    /\ consumed' = consumed + samples
    /\ samples' = 0
    /\ pc' = [pc EXCEPT ![t] = IF produced - consumed' > 0 THEN "D_pcm" ELSE "D_pktloop"]
    /\ UNCHANGED <<samplesPerChannel, pcmClosed, stopClosed, closed, onError, mutex>>
    /\ UNCHANGED <<srcLeft, syncBuf, pkts, gap, pageEos, dspInit, produced, cleanups>>
    /\ UNCHANGED <<calls, result, late, retErr, run, consumerVars>>
    /\ UNCHANGED <<hookCalls, stopSets, closeReturned, eosDrained>>
    /\ UNCHANGED <<headerVars, script, pageinRet>>

\* d.sendFrame(frame) of the deferred flush, then the deferred BlockClear,
\* DspClear and Unlock; Decode has returned
FlushSend(t) ==
    /\ Running
    /\ pc[t] = "D_flush"
    /\ \E c \in SelectReady : SendEffect(c, frame)
    /\ frame' = <<>>
    /\ dspInit' = FALSE
    /\ mutex' = None
    /\ result' = [result EXCEPT ![t] = retErr]
    /\ retErr' = "nil"
    /\ eosDrained' = FALSE
    /\ pc' = [pc EXCEPT ![t] = "idle"]
    /\ UNCHANGED <<samplesPerChannel, pcmClosed, stopClosed, closed, onError>>
    /\ UNCHANGED <<srcLeft, syncBuf, pkts, gap, pageEos, produced, consumed, cleanups>>
    /\ UNCHANGED <<calls, late, samples, run, consumerVars>>
    /\ UNCHANGED <<hookCalls, stopSets, closeReturned>>
    /\ UNCHANGED <<headerVars, script, pageinRet>>

\* ------------------------------------------------------------------- Close
CallClose(t) ==
    /\ Running
    /\ pc[t] = "idle"
    /\ calls[t] < CallLimit(t)
    /\ pc' = [pc EXCEPT ![t] = "C_check"]
    /\ calls' = [calls EXCEPT ![t] = @ + 1]
    /\ late' = [late EXCEPT ![t] = closeReturned]
    /\ UNCHANGED <<decoderVars, engineVars, result, localVars, consumerVars, historyVars>>
    /\ UNCHANGED <<headerVars, script, pageinRet>>

\* if !d.stopRequested()
CloseCheck(t) ==
    /\ Running
    /\ pc[t] = "C_check"
    /\ pc' = [pc EXCEPT ![t] = IF ~stopRequested THEN "C_stop" ELSE "C_lock"]
    /\ UNCHANGED <<decoderVars, engineVars, calls, result, late, localVars>>
    /\ UNCHANGED <<consumerVars, historyVars>>
    /\ UNCHANGED <<headerVars, script, pageinRet>>

\* close(d.stopChan); closing a closed channel panics
CloseStop(t) ==
    /\ Running
    /\ pc[t] = "C_stop"
    /\ stopSets' = stopSets + 1
    /\ IF stopClosed
       THEN /\ panicked' = "close of closed channel"
            /\ UNCHANGED <<stopClosed, pc>>
       ELSE /\ stopClosed' = TRUE
            /\ pc' = [pc EXCEPT ![t] = "C_lock"]
            /\ UNCHANGED panicked
    /\ UNCHANGED <<samplesPerChannel, pcmOut, pcmClosed, closed, onError, mutex>>
    /\ UNCHANGED <<engineVars, calls, result, late, localVars, consumerVars>>
    /\ UNCHANGED <<sent, dropped, hookCalls, closeReturned, eosDrained>>
    /\ UNCHANGED <<headerVars, script, pageinRet>>

\* d.Lock(), the closed check, d.closed = true, close(d.pcmOut),
\* decoderStateCleanup (the stream, comment, info and sync state are released
\* and hold nothing afterwards), and the deferred Unlock; Close has returned
CloseBody(t) ==
    /\ Running
    /\ pc[t] = "C_lock"
    /\ CanLock
    /\ IF CloseDone
       THEN UNCHANGED <<closed, pcmClosed, cleanups, syncBuf, pkts, gap, pageEos, panicked>>
       ELSE /\ closed' = TRUE
            /\ pcmClosed' = ClosedPcmOut
            /\ cleanups' = cleanups + 1
            /\ syncBuf' = 0
            /\ pkts' = 0
            /\ gap' = FALSE
            /\ pageEos' = FALSE
            /\ panicked' = IF pcmClosed THEN "close of closed channel" ELSE panicked
    /\ closeReturned' = TRUE
    /\ pc' = [pc EXCEPT ![t] = "idle"]
    /\ UNCHANGED <<samplesPerChannel, pcmOut, stopClosed, onError, mutex>>
    /\ UNCHANGED <<srcLeft, dspInit, produced, consumed>>
    /\ UNCHANGED <<calls, result, late, localVars, consumerVars>>
    /\ UNCHANGED <<sent, dropped, hookCalls, stopSets, eosDrained>>
    /\ UNCHANGED <<headerVars, script, pageinRet>>

\* ---------------------------------------------------------------- consumer
\* frame, ok := <-samples with a frame buffered (main.go:144)
Receive ==
    /\ Running
    /\ ~consumerDone
    /\ pcmOut # <<>>
    /\ received' = Append(received, Head(pcmOut))
    /\ pcmOut' = Tail(pcmOut)
    /\ UNCHANGED <<samplesPerChannel, pcmClosed, stopClosed, closed, onError, mutex>>
    /\ UNCHANGED <<engineVars, threadVars, localVars, consumerDone, historyVars>>
    /\ UNCHANGED <<headerVars, script, pageinRet>>

\* frame, ok := <-samples on the closed and empty channel: !ok
ReceiveClosed ==
    /\ Running
    /\ ~consumerDone
    /\ pcmOut = <<>>
    /\ pcmClosed
    /\ consumerDone' = TRUE
    /\ UNCHANGED <<decoderVars, engineVars, threadVars, localVars, received, historyVars>>
    /\ UNCHANGED <<headerVars, script, pageinRet>>

\* --------------------------------------------------------------------- New
\* What the byte source holds when New is called: a sequence of units.  A unit
\* is junk (bytes the sync layer skips), a page that completes np packets the
\* codec engine takes as headers, a page OggStreamPagein rejects, a page that
\* leaves a hole before its packet, or a page whose packet SynthesisHeaderin
\* rejects.
HeaderUnits ==
    {[kind |-> "junk", np |-> 0]}
    \cup {[kind |-> "page", np |-> n] : n \in 0..MaxHdrPkts}
    \cup {[kind |-> k, np |-> 1] : k \in {"rejected", "hole", "badhdr"}}

Streams == UNION {[1..n -> HeaderUnits] : n \in 0..MaxStream}

\* n times the packet x
Rep(x, n) == [i \in 1..n |-> x]

\* ogg_stream_pagein: the packets the page adds to d.streamState
PacketsOf(u) ==
    IF u.kind = "page" THEN Rep("hdr", u.np)
    ELSE IF u.kind = "hole" THEN <<"hole", "hdr">>
    ELSE IF u.kind = "badhdr" THEN <<"bad">>
    ELSE <<>>

\* ogg_stream_pagein: 0, or -1 for a page it does not take
Pagein(u) == IF u.kind = "rejected" THEN -1 ELSE 0

\* ogg_sync_pageout over the buffered units: 1 a page, 0 more data needed,
\* -1 bytes were skipped
Pageout(data) ==
    IF data = <<>> THEN 0 ELSE IF Head(data).kind = "junk" THEN -1 ELSE 1

\* ogg_stream_packetout over the waiting packets: 1 a packet, 0 none, -1 a hole
Packetout(q) ==
    IF q = <<>> THEN 0 ELSE IF Head(q) = "hole" THEN -1 ELSE 1

\* vorbis_synthesis_headerin on the packet
Headerin(x) == IF x = "hdr" THEN 0 ELSE -1

\* a readStreamHeaders that goes on when the first OggSyncPageout skipped bytes
FirstPageFoundAny(ret) == ret # 0

\* readStreamHeaders: what the first OggSyncPageout must return
FirstPageFound(ret) == ret = 1

\* a readStreamHeaders that goes on after one more header
MoreHeadersOne(h) == h < 1

\* readStreamHeaders: for headersRead < 2
MoreHeaders(h) == h < 2

\* readStreamHeaders: if _, err := d.readChunk(r); err != nil
ChunkFailed(n, err) == err # "nil"

\* everything New leaves alone
decodeSide ==
    <<pcmOut, pcmClosed, stopClosed, closed, onError, mutex, gap, pageEos, dspInit,
      produced, consumed, threadVars, localVars, consumerVars, historyVars, script,
      pageinRet, samplesPerChannel, stream>>

\* New is called on a byte source holding any stream
NewInit ==
    /\ samplesPerChannel \in 1..MaxSpc
    /\ pcmOut = <<>>
    /\ pcmClosed = FALSE
    /\ stopClosed = FALSE
    /\ closed = FALSE
    /\ onError = "nil"
    /\ mutex = None
    /\ stream \in Streams
    /\ input = stream
    /\ srcLeft = Len(stream)
    /\ syncData = <<>>
    /\ syncBuf = 0
    /\ hq = <<>>
    /\ pkts = 0
    /\ gap = FALSE
    /\ pageEos = FALSE
    /\ dspInit = FALSE
    /\ produced = 0
    /\ consumed = 0
    /\ cleanups = 0
    /\ pc = [t \in Callers |-> "idle"]
    /\ calls = [t \in Callers |-> 0]
    /\ result = [t \in Callers |-> None]
    /\ late = [t \in Callers |-> FALSE]
    /\ frame = <<>>
    /\ samples = 0
    /\ retErr = "nil"
    /\ run = 0
    /\ received = <<>>
    /\ consumerDone = FALSE
    /\ sent = <<>>
    /\ dropped = 0
    /\ hookCalls = 0
    /\ stopSets = 0
    /\ closeReturned = FALSE
    /\ eosDrained = FALSE
    /\ panicked = None
    /\ npc = "N_start"
    /\ headersRead = 0
    /\ accepted = 0
    /\ newResult = None
    /\ ioFailed = FALSE
    /\ script = <<>>
    /\ pageinRet = 0

\* readStreamHeaders returns err: New runs decoderStateCleanup and returns
\* nil, err
NewFail(err) ==
    /\ newResult' = err
    /\ npc' = "done"
    /\ cleanups' = cleanups + 1
    /\ syncData' = <<>>
    /\ syncBuf' = 0
    /\ hq' = <<>>
    /\ pkts' = 0
    /\ UNCHANGED <<headersRead, accepted>>

\* New up to the first d.readChunk(r) of readStreamHeaders, whose result is
\* not looked at
NewReadFirst ==
    /\ npc = "N_start"
    /\ \E r \in ReadFullResults :
        /\ syncData' = SubSeq(input, 1, r[1])
        /\ syncBuf' = r[1]
        /\ input' = SubSeq(input, r[1] + 1, Len(input))
        /\ srcLeft' = srcLeft - r[1]
        /\ ioFailed' = (r[2] = "ErrIO")
    /\ npc' = "N_first"
    /\ UNCHANGED <<hq, pkts, headersRead, accepted, newResult, cleanups, decodeSide>>

\* the first page: OggSyncPageout, OggStreamPagein, OggStreamPacketout and
\* SynthesisHeaderin of the identification header
NewFirstPage ==
    /\ npc = "N_first"
    /\ LET page == Head(syncData)
           q == PacketsOf(page)
       IN  IF ~FirstPageFound(Pageout(syncData)) THEN NewFail("ErrInvalid")
           ELSE IF Pagein(page) < 0 THEN NewFail("ErrNotBelong")
           ELSE IF Packetout(q) # 1 THEN NewFail("ErrNoInitialPacket")
           ELSE IF Headerin(Head(q)) < 0 THEN NewFail("ErrInitialHeader")
           ELSE /\ syncData' = Tail(syncData)
                /\ syncBuf' = syncBuf - 1
                /\ hq' = Tail(q)
                /\ pkts' = Len(q) - 1
                /\ accepted' = accepted + 1
                /\ npc' = "N_loop"
                /\ UNCHANGED <<headersRead, newResult, cleanups>>
    /\ UNCHANGED <<ioFailed, input, srcLeft, decodeSide>>

\* forPage: OggSyncPageout skipped bytes: try to sync again
NewSkip ==
    /\ npc = "N_loop"
    /\ Pageout(syncData) < 0
    /\ syncData' = Tail(syncData)
    /\ syncBuf' = syncBuf - 1
    /\ UNCHANGED <<ioFailed, input, srcLeft, hq, pkts, npc, headersRead, accepted, newResult>>
    /\ UNCHANGED <<cleanups, decodeSide>>

\* forPage: OggSyncPageout needs more data: readChunk, and the test of its
\* error
NewFeed ==
    /\ npc = "N_loop"
    /\ Pageout(syncData) = 0
    /\ \E r \in ReadFullResults :
        /\ input' = SubSeq(input, r[1] + 1, Len(input))
        /\ srcLeft' = srcLeft - r[1]
        /\ ioFailed' = (ioFailed \/ r[2] = "ErrIO")
        /\ IF ChunkFailed(r[1], readChunkErr(r[2]))
           THEN NewFail("ErrTruncated")
           ELSE /\ syncData' = syncData \o SubSeq(input, 1, r[1])
                /\ syncBuf' = syncBuf + r[1]
                /\ UNCHANGED <<hq, pkts, npc, headersRead, accepted, newResult, cleanups>>
    /\ UNCHANGED decodeSide

\* forPage: a page is synced and handed to OggStreamPagein, whose result is
\* not looked at
NewPage ==
    /\ npc = "N_loop"
    /\ Pageout(syncData) = 1
    /\ LET page == Head(syncData)
       IN  hq' = IF Pagein(page) < 0 THEN hq ELSE hq \o PacketsOf(page)
    /\ pkts' = Len(hq')
    /\ syncData' = Tail(syncData)
    /\ syncBuf' = syncBuf - 1
    /\ npc' = "N_pkt"
    /\ UNCHANGED <<ioFailed, input, srcLeft, headersRead, accepted, newResult, cleanups, decodeSide>>

\* OggStreamPacketout reports a hole: readStreamHeaders fails
NewPacketMissing ==
    /\ npc = "N_pkt"
    /\ Packetout(hq) < 0
    /\ NewFail("ErrMissing")
    /\ UNCHANGED <<ioFailed, input, srcLeft, decodeSide>>

\* no packets left on the page: go get a new one
NewPacketNone ==
    /\ npc = "N_pkt"
    /\ Packetout(hq) = 0
    /\ npc' = "N_loop"
    /\ UNCHANGED <<ioFailed, input, srcLeft, syncData, syncBuf, hq, pkts, headersRead, accepted>>
    /\ UNCHANGED <<newResult, cleanups, decodeSide>>

\* a packet goes to SynthesisHeaderin; with the last header accepted
\* readStreamHeaders returns nil and New returns the Decoder
NewHeader ==
    /\ npc = "N_pkt"
    /\ Packetout(hq) = 1
    /\ IF Headerin(Head(hq)) < 0
       THEN NewFail("ErrSecondary")
       ELSE /\ hq' = Tail(hq)
            /\ pkts' = pkts - 1
            /\ headersRead' = headersRead + 1
            /\ accepted' = accepted + 1
            /\ npc' = IF MoreHeaders(headersRead') THEN "N_pkt" ELSE "done"
            /\ newResult' = IF MoreHeaders(headersRead') THEN newResult ELSE "ok"
            /\ UNCHANGED <<syncData, syncBuf, cleanups>>
    /\ UNCHANGED <<ioFailed, input, srcLeft, decodeSide>>

NewNext ==
    \/ NewReadFirst \/ NewFirstPage
    \/ NewSkip \/ NewFeed \/ NewPage
    \/ NewPacketMissing \/ NewPacketNone \/ NewHeader

NewSpec == NewInit /\ [][NewNext]_vars

\* ----------------------------------------------------------- specification
\* the steps a caller thread takes inside a call it has made
CallerStep(t) ==
    \/ DecodeRefuse(t) \/ DecodeInitFails(t) \/ DecodeBegin(t) \/ DecodeStopped(t)
    \/ PageDesync(t) \/ PageNeedsData(t) \/ PageIn(t) \/ ReadChunk(t)
    \/ PacketStopped(t) \/ PacketHole(t) \/ PacketNone(t) \/ PacketDecode(t)
    \/ PcmAppend(t) \/ SendFull(t) \/ FlushSend(t)
    \/ CloseCheck(t) \/ CloseStop(t) \/ CloseBody(t)

Consumer == Receive \/ ReceiveClosed

Next ==
    \/ SetErrorHandler
    \/ \E t \in Callers : CallDecode(t) \/ CallClose(t) \/ CallerStep(t)
    \/ Consumer

Spec == Init /\ [][Next]_vars

\* the Decoder of the worked example: frames of 4 samples, decode steps that
\* yield bursts of 3, 5 and 0 samples, and three more units of input
ScenarioInit ==
    /\ samplesPerChannel = 4
    /\ script = <<3, 5, 0>>
    /\ syncBuf = 1
    /\ srcLeft = 2
    /\ pcmOut = <<>>
    /\ pcmClosed = FALSE
    /\ stopClosed = FALSE
    /\ closed = FALSE
    /\ onError = "nil"
    /\ mutex = None
    /\ pkts = 0
    /\ gap = FALSE
    /\ pageEos = FALSE
    /\ dspInit = FALSE
    /\ produced = 0
    /\ consumed = 0
    /\ cleanups = 0
    /\ pc = [t \in Callers |-> "idle"]
    /\ calls = [t \in Callers |-> 0]
    /\ result = [t \in Callers |-> None]
    /\ late = [t \in Callers |-> FALSE]
    /\ frame = <<>>
    /\ samples = 0
    /\ retErr = "nil"
    /\ run = 0
    /\ received = <<>>
    /\ consumerDone = FALSE
    /\ sent = <<>>
    /\ dropped = 0
    /\ hookCalls = 0
    /\ stopSets = 0
    /\ closeReturned = FALSE
    /\ eosDrained = FALSE
    /\ panicked = None
    /\ stream = <<>>
    /\ input = <<>>
    /\ syncData = <<>>
    /\ hq = <<>>
    /\ npc = "done"
    /\ headersRead = 2
    /\ accepted = 3
    /\ newResult = "ok"
    /\ ioFailed = FALSE
    /\ pageinRet = 0

ScenarioSpec == ScenarioInit /\ [][Next]_vars

\* the steps of a caller thread are taken as long as they can be: goroutines
\* are scheduled and a read from the byte source returns.  Nothing makes a
\* thread start a call, and nothing makes the consumer receive.
LiveSpec == Spec /\ \A t \in Callers : WF_vars(CallerStep(t))

\* the same, with a consumer that keeps receiving
PlaySpec == LiveSpec /\ WF_vars(Consumer)

\* ------------------------------------------------------------------ claims
DecodePcs == {"D_lock", "D_loop", "D_read", "D_pktloop", "D_pcm", "D_send", "D_flush"}
DecodeBodyPcs == DecodePcs \ {"D_lock"}
ClosePcs == {"C_check", "C_stop", "C_lock"}

\* C1: every frame put on the output channel holds between 1 and
\* samplesPerChannel samples, and a frame shorter than samplesPerChannel is
\* the last one its Decode run sends.
C1_FrameLengths ==
    \A i \in 1..Len(sent) :
        /\ Len(sent[i].data) \in 1..samplesPerChannel
        /\ Len(sent[i].data) < samplesPerChannel =>
              (i = Len(sent) \/ sent[i + 1].run # sent[i].run)

\* a run sent a full frame and then, as its last one, a shorter frame
C1_Witness ==
    /\ Len(sent) >= 2
    /\ sent[1].run = sent[Len(sent)].run
    /\ Len(sent[1].data) = samplesPerChannel
    /\ Len(sent[Len(sent)].data) < samplesPerChannel
    /\ \A t \in Callers : pc[t] \notin DecodePcs

\* C2: as long as no frame was given up for the stop signal, the frames sent,
\* followed by the frame in progress, are the decoded samples 0, 1, 2, ... each
\* once and in order, up to the last sample appended; SynthesisRead has
\* consumed every sample but those appended to a full frame not sent yet; the
\* channel hands the frames over in the order sent; and once Decode has
\* returned and the consumer has drained the channel, the frames received are
\* all the samples the codec engine produced.
C2_SamplesAccounted ==
    dropped = 0 =>
        /\ Concat(Data(sent)) \o frame = Ids(0, consumed + samples)
        /\ received \o pcmOut = Data(sent)
        /\ (\A t \in Callers : pc[t] \notin {"D_pcm", "D_send"}) => consumed = produced
        /\ ((\A t \in Callers : pc[t] \notin DecodePcs) /\ pcmOut = <<>>)
              => Concat(received) = Ids(0, produced)

\* Decode ran to the end of the input without a stop request or an error, the
\* consumer drained the channel, and the samples came in several frames, the
\* last one short
C2_Witness ==
    /\ pc["t1"] = "idle"
    /\ result["t1"] = "nil"
    /\ ~stopClosed
    /\ srcLeft = 0
    /\ pcmOut = <<>>
    /\ samplesPerChannel = 2
    /\ Len(received) = 2
    /\ produced = 3
    /\ Concat(received) = Ids(0, 3)

\* C3: a stop request does not deadlock against a full channel.  Once the
\* stop signal is set while Decode is handling a page (in particular while it
\* is blocked in sendFrame), Decode does not go back to ask for another page
\* or for more bytes; a Decode that runs with the stop signal set returns; a
\* Close that waits for the mutex while Decode runs completes; and in particular,
\* when the stop signal is set while Decode is blocked in sendFrame on a full
\* channel that nobody drains, the Close that set the signal completes.
Unwinding == {"D_pktloop", "D_pcm", "D_send", "D_flush"}

BlockedOnFull(t) == pc[t] \in {"D_send", "D_flush"} /\ Len(pcmOut) = OUT_BUFFER_SIZE

C3_StopNeverDeadlocks ==
    /\ [][\A t \in Callers :
            (stopClosed /\ pc[t] \in Unwinding) => pc'[t] \in Unwinding \cup {"idle"}]_vars
    /\ \A t \in Callers : (pc[t] \in DecodeBodyPcs /\ stopClosed) ~> pc[t] = "idle"
    /\ \A t, u \in Callers : (pc[t] = "C_lock" /\ pc[u] \in DecodeBodyPcs) ~> closeReturned
    /\ \A t \in Callers : (BlockedOnFull(t) /\ stopClosed) ~> closeReturned

\* Close has completed although the channel is still full of the first frames,
\* the consumer never received anything, and the frame that found the channel
\* full was given up for the stop signal
C3_Witness ==
    /\ closeReturned
    /\ dropped > 0
    /\ received = <<>>
    /\ Len(pcmOut) = OUT_BUFFER_SIZE
    /\ Concat(pcmOut) = Ids(0, OUT_BUFFER_SIZE * samplesPerChannel)

\* C4: two Close calls running at once set the stop signal once, do not
\* crash, and close the channel and release the state once.
C4_ConcurrentCloseSafe ==
    /\ stopSets <= 1
    /\ cleanups <= 1
    /\ panicked # "close of closed channel"

\* C5: a Close call that starts after another Close call has returned changes
\* nothing: each of its steps leaves the Decoder, the codec engine state, the
\* channel and the stop signal as they are, releases nothing, does not panic,
\* and the call returns; and the release runs once at most.
C5_SequentialCloseIdempotent ==
    [][/\ cleanups' <= 1
       /\ \A t \in Callers :
            (late[t] /\ pc[t] \in ClosePcs /\ pc'[t] # pc[t]) =>
                /\ pc'[t] \in {"C_lock", "idle"}
                /\ UNCHANGED <<decoderVars, engineVars, localVars, consumerVars, historyVars>>]_vars

\* the shutdown hook's Close began after the decoding thread's Close had
\* returned, and has returned too
C5_Witness ==
    /\ late["t2"]
    /\ calls["t2"] = 1
    /\ pc["t2"] = "idle"
    /\ cleanups = 1
    /\ panicked = None

\* C6: while a thread is inside Decode's body the channel is open and the
\* codec engine state is not released, and no frame is sent on a closed
\* channel.
C6_CloseWaitsForDecode ==
    /\ panicked # "send on closed channel"
    /\ \A t \in Callers : pc[t] \in DecodeBodyPcs => (~pcmClosed /\ cleanups = 0)

\* a Close that set the stop signal while Decode was sending has waited for
\* Decode, and then closed the channel and released the state
C6_Witness ==
    /\ closeReturned
    /\ cleanups = 1
    /\ pcmClosed
    /\ sent # <<>>
    /\ dropped > 0
    /\ \A t \in Callers : pc[t] = "idle"

\* C7: the consumer that sees the channel closed has received every frame
\* that was sent, in the order sent, and receives nothing afterwards; when the
\* decoding thread is the only caller these frames hold every sample the codec
\* engine produced; and when
\* the decoding thread is the only caller and has gone on to Close, a consumer
\* that keeps receiving comes to see the channel closed.
C7_DrainThenClosed ==
    /\ [](consumerDone => (pcmOut = <<>> /\ received = Data(sent)))
    /\ []((consumerDone /\ calls["t2"] = 0) => Concat(received) = Ids(0, produced))
    /\ [][consumerDone => received' = received]_vars
    /\ (pc["t1"] \in ClosePcs /\ calls["t2"] = 0) ~> (consumerDone \/ calls["t2"] > 0)

\* the decoding thread ran Decode to the end of the input and then Close, and
\* the consumer received the frames, the last one short, and saw the closure
C7_Witness ==
    /\ consumerDone
    /\ calls = [t \in Callers |-> IF t = "t1" THEN 2 ELSE 0]
    /\ result["t1"] = "nil"
    /\ dropped = 0
    /\ Len(received) >= 2
    /\ Len(received[Len(received)]) < samplesPerChannel

\* C8: once Decode has taken the last packet of a page that carries the
\* end-of-stream marker, it does not read from the byte source any more: a
\* thread that stands at the readChunk call of readNextPage does not make it.
C8_EosEndsDecode ==
    [][\A t \in Callers : (eosDrained /\ pc[t] = "D_read") => pc'[t] = "D_read"]_vars

\* C9: a Decoder without an error handler does not crash on a non-fatal event.
C9_NoHandlerNoCrash == panicked # "nil handler"

\* C10: a Decode call that starts after a Close call has returned takes one
\* step: it returns the already-closed error and leaves the Decoder, the codec
\* engine state, the byte source and the channel as they are.
C10_DecodeAfterClose ==
    [][\A t \in Callers :
         (late[t] /\ pc[t] = "D_lock" /\ pc'[t] # pc[t]) =>
             /\ pc'[t] = "idle"
             /\ result'[t] = "ErrClosed"
             /\ UNCHANGED <<decoderVars, engineVars, localVars, consumerVars, historyVars>>]_vars

\* Decode was called after Close had returned, and returned the error
C10_Witness ==
    /\ late["t1"]
    /\ pc["t1"] = "idle"
    /\ result["t1"] = "ErrClosed"
    /\ panicked = None

\* what the header section of a stream holds
NoPage(st) == \A i \in 1..Len(st) : st[i].kind = "junk"

Framed(st) == \A i \in 1..Len(st) : st[i].kind = "page"

RECURSIVE HeaderPackets(_)
HeaderPackets(st) == IF st = <<>> THEN 0 ELSE Head(st).np + HeaderPackets(Tail(st))

C12_ThreeHeadersThenReady ==
    /\ newResult = "ok" => (accepted = 3 /\ headersRead = 2)
    /\ npc \in {"N_loop", "N_pkt"} => (accepted = headersRead + 1 /\ headersRead < 2)
    /\ npc \in {"N_start", "N_first"} => (accepted = 0 /\ headersRead = 0)
    /\ (~dspInit /\ produced = 0 /\ consumed = 0 /\ sent = <<>>)

\* New succeeded on a stream whose second page completes no packet, so that
\* the two remaining headers came from pages fetched later
C12_Witness ==
    /\ newResult = "ok"
    /\ Len(stream) = 4
    /\ Framed(stream)
    /\ stream[2].np = 0
    /\ accepted = 3

\* C13: a desync during Decode with an error handler registered invokes the
\* handler once and changes nothing else: Decode stays in its loop, and the
\* frame in progress, the samples decoded and read, the packets waiting, the
\* frames sent, given up, buffered and received are as they were.
C13_DesyncOnlyReported ==
    [][\A t \in Callers :
         (/\ pc[t] = "D_loop"
          /\ syncBuf' < syncBuf
          /\ pc'[t] # "D_pktloop"
          /\ onError # "nil") =>
             /\ hookCalls' = hookCalls + 1
             /\ pc'[t] = "D_loop"
             /\ UNCHANGED <<frame, samples, produced, consumed, pkts, gap, pageEos>>
             /\ UNCHANGED <<sent, dropped, pcmOut, received, srcLeft, panicked>>]_vars

\* one Decode call with a handler registered met a desync, reported it once,
\* ran to the end of the input, and the consumer received every sample
C13_Witness ==
    /\ onError = "fn"
    /\ calls["t1"] = 1
    /\ pc["t1"] = "idle"
    /\ result["t1"] = "nil"
    /\ hookCalls = 1
    /\ produced > 0
    /\ pcmOut = <<>>
    /\ Concat(received) = Ids(0, produced)

\* the two frames of the worked example
ScenarioFrames == <<Ids(0, 4), Ids(4, 4)>>

\* the three decode steps of the worked example were taken by one Decode run
\* with no frame given up
ScenarioDecoded == script = <<>> /\ run = 1 /\ dropped = 0

\* and the consumer has seen the channel closed
ScenarioPlayed == ScenarioDecoded /\ consumerDone

\* C14, as the code has it: with frames of 4 samples and bursts of 3, 5 and
\* 0 samples, the frames sent are [s0..s3] and then [s4..s7] and nothing
\* else: after the third decode step both have been sent and the frame in
\* progress is empty, so that the consumer receives exactly these two frames
\* before it sees the channel closed.
C14_ScenarioTwoFrames ==
    /\ ScenarioDecoded => (Data(sent) = ScenarioFrames /\ frame = <<>> /\ produced = 8)
    /\ ScenarioPlayed => received = ScenarioFrames

\* C14, as stated: the consumer receives the two full frames and then a
\* third frame holding one leftover sample.
C14_ScenarioThirdFrame ==
    ScenarioPlayed =>
        /\ Len(received) = 3
        /\ SubSeq(received, 1, 2) = ScenarioFrames
        /\ Len(received[3]) = 1

\* the worked example was played to the end by the decoding thread alone
C14_Witness ==
    /\ ScenarioPlayed
    /\ calls["t2"] = 0
    /\ result["t1"] = "nil"
    /\ produced = 8
    /\ received = ScenarioFrames

\* a header section as Vorbis lays it out: pages only, the identification
\* header alone on the first page, and at least three header packets
ValidHeaders(st) ==
    /\ st # <<>>
    /\ Framed(st)
    /\ st[1].np = 1
    /\ HeaderPackets(st) >= 3

\* C15: over a byte source that holds all three header packets and does not
\* fail, New succeeds, wherever the header bytes lie with respect to the
\* DATA_CHUNK_SIZE reads.
C15_HeadersPresentNewSucceeds ==
    (npc = "done" /\ ValidHeaders(stream) /\ ~ioFailed) => newResult = "ok"

\* C16: New returns the invalid-stream error only over a byte source that
\* holds no page.
C16_InvalidOnlyWithoutPage ==
    (npc = "done" /\ newResult = "ErrInvalid" /\ ~ioFailed) => NoPage(stream)

\* C17 (as stated): the deferred flush of a Decode that ends on the stop
\* signal, with room in the channel, sends the frame in progress.
C17_PartialFrameFlushed ==
    [][\A t \in DecodeCallers :
         (/\ pc[t] = "D_flush"
          /\ pc'[t] = "idle"
          /\ stopClosed
          /\ ~pcmClosed
          /\ Len(pcmOut) < OUT_BUFFER_SIZE) =>
             /\ Len(sent') = Len(sent) + 1
             /\ dropped' = dropped]_vars

\* C18 (as stated): a page that OggStreamPagein rejects during Decode is
\* reported to the error handler.
C18_RejectedPageReported ==
    [][\A t \in DecodeCallers :
         (/\ pc[t] = "D_loop"
          /\ pc'[t] = "D_pktloop"
          /\ onError # "nil"
          /\ pageinRet' < 0) =>
             hookCalls' = hookCalls + 1]_vars

\* what Decode returns with when the step leaves its body
Returned(t) == IF pc'[t] = "idle" THEN result'[t] ELSE retErr'

\* C19: with a handler registered, a read of the byte source that fails with
\* an error other than end of input ends the loop, the error is what Decode
\* returns, and the handler has run once for it; a failed SynthesisInit is
\* reported once and returned with no frame sent; every other way out of
\* Decode leaves the handler alone, and io.EOF is never what Decode returns.
C19_FatalReportedOnce ==
    [][\A t \in DecodeCallers :
         /\ (pc[t] = "D_read" /\ ~ioFailed /\ ioFailed') =>
                /\ pc'[t] \in {"idle", "D_flush"}
                /\ Returned(t) = "ErrIO"
         /\ (pc[t] = "D_read" /\ pc'[t] \in {"idle", "D_flush"}) =>
                /\ Returned(t) \in {"nil", "ErrIO"}
                /\ Returned(t) = "ErrIO" =>
                      hookCalls' = hookCalls + (IF onError # "nil" THEN 1 ELSE 0)
                /\ Returned(t) = "nil" => (hookCalls' = hookCalls /\ srcLeft = 0)
         /\ (pc[t] = "D_read" /\ pc'[t] = "D_loop") => hookCalls' = hookCalls
         /\ (pc[t] = "D_flush" /\ pc'[t] = "idle") =>
                (result'[t] = retErr /\ hookCalls' = hookCalls)
         /\ (pc[t] = "D_lock" /\ pc'[t] = "idle" /\ result'[t] = "ErrInit") =>
                /\ hookCalls' = hookCalls + (IF onError # "nil" THEN 1 ELSE 0)
                /\ UNCHANGED <<sent, pcmOut, dropped, run>>
         /\ result'[t] # "EOF"
         /\ retErr' # "EOF"]_vars

\* a Decode with a handler registered sent a frame, met a read error, and
\* returned it with one call of the handler
C19_Witness ==
    /\ onError = "fn"
    /\ calls["t1"] = 1
    /\ pc["t1"] = "idle"
    /\ result["t1"] = "ErrIO"
    /\ ioFailed
    /\ hookCalls = 1
    /\ sent # <<>>

\* C20 (as stated): once sendFrame has given up a frame for the stop signal,
\* no later frame reaches the channel.
C20_NoFrameAfterDrop ==
    [][dropped > 0 => sent' = sent]_vars

====
